---- MODULE Spec2Model ----
(***************************************************************************)
(* Model of slack_summary/app.py: the daily stand-up summariser.  One      *)
(* Lambda entry point, handler(event, context), runs the linear flow       *)
(* environment -> secret lookup -> history fetch -> (model call) -> post.  *)
(* Text values are sequences of one-character strings so that joining,     *)
(* slicing, stripping and formatting are computed, not assumed.  Python    *)
(* dicts are functions whose DOMAIN is the set of keys present.            *)
(***************************************************************************)
EXTENDS Integers, Sequences, FiniteSets, TLC

\* ---------------------------------------------------------------- bounds
\* Longest history response (number of message records) the model draws.
MaxMsgs == 3
\* Longest list of completions the model draws for 'replies'.
MaxReplies == 2
\* Number of handler invocations in one behaviour.
MaxInvocations == 2

\* ------------------------------------------------------ program constants
\* joined[-12000:]
PromptCap == 12000
\* generation_kwargs={"max_tokens": 512}
MaxTokens == 512
\* conversations_history(limit=200)
HistoryLimit == 200
\* "statusCode": 200
StatusOK == 200

\* The fixed instruction that starts every prompt.
Instruction ==
  <<
     "S", "u", "m", "m", "a", "r", "i", "s", "e", " ", "t", "h", "e", " ", "f", "o",
     "l", "l", "o", "w", "i", "n", "g", " ", "s", "t", "a", "n", "d", "-", "u", "p",
     " ", "u", "p", "d", "a", "t", "e", "s", " ", "i", "n", "t", "o", " ", "e", "x",
     "a", "c", "t", "l", "y", " ", "f", "i", "v", "e", " ", "c", "o", "n", "c", "i",
     "s", "e", " ", "b", "u", "l", "l", "e", "t", " ", "p", "o", "i", "n", "t", "s",
     ".", " ", "O", "m", "i", "t", " ", "g", "r", "e", "e", "t", "i", "n", "g", "s",
     " ", "a", "n", "d", " ", "s", "m", "a", "l", "l", " ", "t", "a", "l", "k", ":",
     "\n", "\n"
  >>
\* f"*Stand-up summary for <#{channel_id}> ({date}):*\n" in three pieces.
HeaderOpen ==
  <<
     "*", "S", "t", "a", "n", "d", "-", "u", "p", " ", "s", "u", "m", "m", "a", "r",
     "y", " ", "f", "o", "r", " ", "<", "#"
  >>
HeaderMid ==
  <<
     ">", " ", "("
  >>
HeaderClose ==
  <<
     ")", ":", "*", "\n"
  >>
\* "_There are no stand-up messages to summarise today._"
NoMessagesLine ==
  <<
     "_", "T", "h", "e", "r", "e", " ", "a", "r", "e", " ", "n", "o", " ", "s", "t",
     "a", "n", "d", "-", "u", "p", " ", "m", "e", "s", "s", "a", "g", "e", "s", " ",
     "t", "o", " ", "s", "u", "m", "m", "a", "r", "i", "s", "e", " ", "t", "o", "d",
     "a", "y", ".", "_"
  >>
\* The separator of "\n\n".join(texts).
Separator == <<"\n", "\n">>

\* Body of the result returned on the empty-history branch.
NoticeBody == "Posted 'no messages' notice."
\* json.dumps({"message": "Summary posted"})
SummaryBody == "{\"message\": \"Summary posted\"}"

\* Characters removed by str.strip() with no argument (ASCII whitespace).
Whitespace == {" ", "\t", "\n", "\r", "\f"}

\* ------------------------------------------------------------ pure helpers
Min(S) == CHOOSE x \in S : \A y \in S : x <= y
Max(S) == CHOOSE x \in S : \A y \in S : x >= y

\* dict.get(key, default)
DictGet(d, key, default) == IF key \in DOMAIN d THEN d[key] ELSE default

\* Variant: s[:n], the cap taken from the front instead of the back.
FirstChars(s, n) == SubSeq(s, 1, IF Len(s) < n THEN Len(s) ELSE n)

\* Variant: no cap at all.
AllChars(s, n) == s

\* s[-n:] for n > 0: the last n characters, or all of s when it is shorter.
LastChars(s, n) == SubSeq(s, Max({Len(s) - n, 0}) + 1, Len(s))

\* Variant: the texts are joined by a single line break.
RECURSIVE JoinSingleNewline(_, _)
JoinSingleNewline(sep, ts) ==
  IF ts = <<>> THEN <<>>
  ELSE IF Len(ts) = 1 THEN ts[1]
  ELSE ts[1] \o <<"\n">> \o JoinSingleNewline(sep, Tail(ts))

\* sep.join(texts)
RECURSIVE Join(_, _)
Join(sep, ts) ==
  IF ts = <<>> THEN <<>>
  ELSE IF Len(ts) = 1 THEN ts[1]
  ELSE ts[1] \o sep \o Join(sep, Tail(ts))

\* m.get("text"): the text of a record, "" standing in for the absent value
\* (both are falsy).
MsgText(m) == DictGet(m, "text", <<>>)

\* Variant: the filter tests the presence of the field, not its truth value.
RECURSIVE ExtractTextsKeepEmpty(_)
ExtractTextsKeepEmpty(msgs) ==
  IF msgs = <<>> THEN <<>>
  ELSE IF "text" \in DOMAIN Head(msgs)
       THEN <<MsgText(Head(msgs))>> \o ExtractTextsKeepEmpty(Tail(msgs))
       ELSE ExtractTextsKeepEmpty(Tail(msgs))

\* [m.get("text", "") for m in messages if m.get("text")]
RECURSIVE ExtractTexts(_)
ExtractTexts(msgs) ==
  IF msgs = <<>> THEN <<>>
  ELSE IF MsgText(Head(msgs)) # <<>>
       THEN <<MsgText(Head(msgs))>> \o ExtractTexts(Tail(msgs))
       ELSE ExtractTexts(Tail(msgs))

\* The prompt handed to generator.run.
BuildPrompt(ts) == Instruction \o LastChars(Join(Separator, ts), PromptCap)

\* Variant: str.lstrip(), trailing whitespace kept.
LStrip(s) ==
  LET keep == {i \in 1..Len(s) : s[i] \notin Whitespace}
  IN IF keep = {} THEN <<>> ELSE SubSeq(s, Min(keep), Len(s))

\* str.strip()
Strip(s) ==
  LET keep == {i \in 1..Len(s) : s[i] \notin Whitespace}
  IN IF keep = {} THEN <<>> ELSE SubSeq(s, Min(keep), Max(keep))

Digits == <<"0", "1", "2", "3", "4", "5", "6", "7", "8", "9">>

\* Decimal rendering of n >= 0, zero-padded to at least w digits (%Y, %m, %d).
RECURSIVE ZeroPad(_, _)
ZeroPad(n, w) ==
  IF n < 10 /\ w <= 1 THEN <<Digits[n + 1]>>
  ELSE ZeroPad(n \div 10, w - 1) \o <<Digits[(n % 10) + 1]>>

\* time.strftime('%Y-%m-%d') of the local date d.
StrfTime(d) ==
  ZeroPad(d.year, 4) \o <<"-">> \o ZeroPad(d.mon, 2) \o <<"-">> \o ZeroPad(d.mday, 2)

\* The header line of both posted messages.
Header(channel_id, d) ==
  HeaderOpen \o channel_id \o HeaderMid \o StrfTime(d) \o HeaderClose

\* Python values of the model response, tagged with their type.
PyNone == [type |-> "NoneType"]
PyStr(s) == [type |-> "str", val |-> s]
PyInt(n) == [type |-> "int", val |-> n]
PyList(xs) == [type |-> "list", val |-> xs]

\* bool(v)
Truthy(v) ==
  CASE v.type = "NoneType" -> FALSE
    [] v.type = "int" -> v.val # 0
    [] OTHER -> v.val # <<>>

\* Variant: the isinstance test is missing, any truthy value passes.
RepliesValidTruthy(raw) == Truthy(raw)

\* The test of line 112 negated: the response passes validation.
RepliesValid(raw) == raw.type = "list" /\ Truthy(raw)

\* raw_replies[0].strip(): the summary, or the exception the expression raises.
FirstReplyStripped(raw) ==
  IF raw.type \notin {"list", "str"} THEN [err |-> "TypeError"]
  ELSE IF raw.val = <<>> THEN [err |-> "IndexError"]
  ELSE IF raw.type = "str" THEN [err |-> "none", summary |-> Strip(<<raw.val[1]>>)]
  ELSE IF raw.val[1].type = "str" THEN [err |-> "none", summary |-> Strip(raw.val[1].val)]
  ELSE [err |-> "AttributeError"]

\* json.loads on the secret strings the model draws; anything else is not JSON.
JsonLoads(s) ==
  CASE s = "{\"SLACK_BOT_TOKEN\": \"xoxb-1\"}" ->
         [err |-> "none", val |-> [SLACK_BOT_TOKEN |-> "xoxb-1"]]
    [] s = "{\"OTHER_KEY\": \"x\"}" ->
         [err |-> "none", val |-> [OTHER_KEY |-> "x"]]
    [] OTHER -> [err |-> "JSONDecodeError"]

\* get_secret(arn) on the outcome o of sm.get_secret_value.
get_secret(o) ==
  IF o.kind # "value" THEN [err |-> o.kind] ELSE JsonLoads(o.SecretString)

\* ------------------------------------------------- inputs the model draws
\* Process environments: complete ones with two channels, and incomplete ones.
Envs ==
  { [SLACK_BOT_TOKEN_SECRET_ARN |-> "arn:secret", SLACK_CHANNEL_ID |-> <<"C", "1">>],
    [SLACK_BOT_TOKEN_SECRET_ARN |-> "arn:secret", SLACK_CHANNEL_ID |-> <<"C", "0", "2", "X">>],
    [SLACK_CHANNEL_ID |-> <<"C", "1">>],
    [SLACK_BOT_TOKEN_SECRET_ARN |-> "arn:secret"] }

\* Outcomes of sm.get_secret_value.
SecretOutcomes ==
  { [kind |-> "ClientError"],
    [kind |-> "value", SecretString |-> "{\"SLACK_BOT_TOKEN\": \"xoxb-1\"}"],
    [kind |-> "value", SecretString |-> "{\"OTHER_KEY\": \"x\"}"],
    [kind |-> "value", SecretString |-> "not json"] }

\* A text three characters short of the cap: alone it fits, with the separator
\* and one more character it fills the cap exactly, with more it overflows.
LongLen == PromptCap - 3
LongText == [i \in 1..LongLen |-> IF i % 7 = 0 THEN "b" ELSE "a"]

\* Message records of a history response: with text, with empty text, and
\* without a text field (a file-share or system event).
MsgPool ==
  { [text |-> <<"x">>, ts |-> "1"],
    [text |-> <<"y", "z">>, ts |-> "2"],
    [text |-> LongText, ts |-> "3"],
    [text |-> <<>>, ts |-> "4"],
    [subtype |-> "file_share", ts |-> "5"] }

MsgSeqs == UNION {[1..n -> MsgPool] : n \in 0..MaxMsgs}

\* Outcomes of slack.conversations_history.
HistoryOutcomes ==
  { [kind |-> "SlackApiError"], [kind |-> "TransportError"],
    [kind |-> "response", body |-> [ok |-> TRUE]] }
  \cup { [kind |-> "response", body |-> [ok |-> TRUE, messages |-> ms]] : ms \in MsgSeqs }

\* Completion texts: plain, padded with whitespace on both sides, whitespace only.
ReplyPool ==
  { <<"o", "k">>,
    <<" ", "-", " ", "X", "\n", "-", " ", "Y", " ", "\n">>,
    <<"\t", " ">> }

ReplySeqs == UNION {[1..n -> {PyStr(r) : r \in ReplyPool}] : n \in 1..MaxReplies}

\* Values generator.run may return.
LLMResults ==
  { [replies |-> PyList(rs), meta |-> "m"] : rs \in ReplySeqs }
  \cup { [meta |-> "m"],
         [replies |-> PyNone, meta |-> "m"],
         [replies |-> PyList(<<>>), meta |-> "m"],
         [replies |-> PyStr(<<"a", "b">>), meta |-> "m"],
         [replies |-> PyInt(7), meta |-> "m"],
         [replies |-> PyList(<<PyNone>>), meta |-> "m"],
         [replies |-> PyList(<<PyInt(5), PyStr(<<"o", "k">>)>>), meta |-> "m"] }

\* Outcomes of generator.run.
LLMOutcomes ==
  { [kind |-> "BedrockError"] } \cup { [kind |-> "result", result |-> r] : r \in LLMResults }

\* Outcomes of slack.chat_postMessage.
PostOutcomes == {"ok", "SlackApiError", "TransportError"}

\* Local dates the clock may show when the header is formatted.
Dates ==
  { [year |-> 2025, mon |-> 6, mday |-> 9],
    [year |-> 2026, mon |-> 11, mday |-> 30] }

\* ------------------------------------------------------------------ state
VARIABLES
  env,            \* os.environ of the process
  inv,            \* number of invocations started
  pc,             \* position of the current invocation in handler
  channel_id,     \* local: channel_id (<<>> before line 49)
  slack_token,    \* local: slack_token ("" before line 51)
  messages,       \* local: messages
  texts,          \* local: texts
  llmRequest,     \* the generator.run call in flight: <<>> or <<[prompt, max_tokens]>>
  result,         \* local: result, <<>> or <<dict>>
  summary,        \* local: summary, <<>> or <<text>>
  today,          \* the date time.strftime read, <<>> or <<date>>
  calls,          \* remote calls issued by this invocation, in order
  posted,         \* arguments of this invocation's chat_postMessage calls
  ret,            \* value returned by handler, <<>> or <<dict>>
  err,            \* exception that left handler, "none" if none
  totalPostCalls, \* chat_postMessage calls over all invocations
  channelPosts,   \* messages that appeared in the channel over all invocations
  nReturned       \* invocations that returned a result

vars ==
  << env, inv, pc, channel_id, slack_token, messages, texts, llmRequest, result,
     summary, today, calls, posted, ret, err, totalPostCalls, channelPosts, nReturned >>

locals == << channel_id, slack_token, messages, texts, llmRequest, result, summary, today >>
totals == << totalPostCalls, channelPosts, nReturned >>

Init ==
  /\ env \in Envs
  /\ inv = 0
  /\ pc = "idle"
  /\ channel_id = <<>>
  /\ slack_token = ""
  /\ messages = <<>>
  /\ texts = <<>>
  /\ llmRequest = <<>>
  /\ result = <<>>
  /\ summary = <<>>
  /\ today = <<>>
  /\ calls = <<>>
  /\ posted = <<>>
  /\ ret = <<>>
  /\ err = "none"
  /\ totalPostCalls = 0
  /\ channelPosts = 0
  /\ nReturned = 0

\* An exception e leaves handler: nothing is returned.
Raise(e) ==
  /\ pc' = "failed"
  /\ err' = e
  /\ ret' = <<>>

\* The scheduler invokes handler(event, context): a fresh frame.
Invoke ==
  /\ pc \in {"idle", "done", "failed"}
  /\ inv < MaxInvocations
  /\ inv' = inv + 1
  /\ pc' = "env"
  /\ channel_id' = <<>>
  /\ slack_token' = ""
  /\ messages' = <<>>
  /\ texts' = <<>>
  /\ llmRequest' = <<>>
  /\ result' = <<>>
  /\ summary' = <<>>
  /\ today' = <<>>
  /\ calls' = <<>>
  /\ posted' = <<>>
  /\ ret' = <<>>
  /\ err' = "none"
  /\ UNCHANGED << env, totals >>

\* Lines 48-49: both environment variables are read; a missing one is a KeyError.
LoadEnv ==
  /\ pc = "env"
  /\ IF {"SLACK_BOT_TOKEN_SECRET_ARN", "SLACK_CHANNEL_ID"} \subseteq DOMAIN env
     THEN /\ channel_id' = env["SLACK_CHANNEL_ID"]
          /\ pc' = "secret"
          /\ UNCHANGED << ret, err >>
     ELSE /\ Raise("KeyError")
          /\ UNCHANGED channel_id
  /\ UNCHANGED << env, inv, slack_token, messages, texts, llmRequest, result, summary,
                  today, calls, posted, totals >>

\* Variant: a failed lookup is logged and swallowed, the flow goes on without a token.
GetSecretSwallow ==
  /\ pc = "secret"
  /\ \E o \in SecretOutcomes :
       LET r == get_secret(o)
           found == r.err = "none" /\ "SLACK_BOT_TOKEN" \in DOMAIN r.val
       IN /\ calls' = Append(calls, [step |-> "secret", ok |-> found])
          /\ slack_token' = IF found THEN r.val["SLACK_BOT_TOKEN"] ELSE ""
          /\ pc' = "history"
          /\ UNCHANGED << ret, err >>
  /\ UNCHANGED << env, inv, channel_id, messages, texts, llmRequest, result, summary,
                  today, posted, totals >>

\* Lines 50-56: the secret lookup; every failure is logged and re-raised.
GetSecret ==
  /\ pc = "secret"
  /\ \E o \in SecretOutcomes :
       LET r == get_secret(o)
           found == r.err = "none" /\ "SLACK_BOT_TOKEN" \in DOMAIN r.val
       IN /\ calls' = Append(calls, [step |-> "secret", ok |-> found])
          /\ IF found
             THEN /\ slack_token' = r.val["SLACK_BOT_TOKEN"]
                  /\ pc' = "history"
                  /\ UNCHANGED << ret, err >>
             ELSE /\ Raise(IF r.err = "none" THEN "KeyError" ELSE r.err)
                  /\ UNCHANGED slack_token
  /\ UNCHANGED << env, inv, channel_id, messages, texts, llmRequest, result, summary,
                  today, posted, totals >>

\* Lines 58-92 up to the branch: one history request, then the extraction of
\* the texts and the choice between the two branches.
FetchHistory ==
  /\ pc = "history"
  /\ \E o \in HistoryOutcomes :
       /\ calls' = Append(calls, [step |-> "history", ok |-> o.kind = "response",
                                  channel |-> channel_id, limit |-> HistoryLimit])
       /\ IF o.kind = "response"
          THEN /\ messages' = DictGet(o.body, "messages", <<>>)
               /\ texts' = ExtractTexts(messages')
               /\ pc' = IF texts' = <<>> THEN "post_notice" ELSE "llm"
               /\ UNCHANGED << ret, err >>
          ELSE /\ Raise(o.kind)
               /\ UNCHANGED << messages, texts >>
  /\ UNCHANGED << env, inv, channel_id, slack_token, llmRequest, result, summary,
                  today, posted, totals >>

\* Variant: a failed post is logged and swallowed, the result is returned anyway.
ChatPostMessageSwallow(text, o, body) ==
  /\ posted' = Append(posted, [channel |-> channel_id, text |-> text])
  /\ calls' = Append(calls, [step |-> "post", ok |-> o = "ok"])
  /\ totalPostCalls' = totalPostCalls + 1
  /\ channelPosts' = IF o = "ok" THEN channelPosts + 1 ELSE channelPosts
  /\ ret' = <<[statusCode |-> StatusOK, body |-> body]>>
  /\ nReturned' = nReturned + 1
  /\ pc' = "done"
  /\ UNCHANGED err

\* slack.chat_postMessage(channel=channel_id, text=text) with outcome o, and
\* what follows it: the return of `body` or the re-raised error.
ChatPostMessage(text, o, body) ==
  /\ posted' = Append(posted, [channel |-> channel_id, text |-> text])
  /\ calls' = Append(calls, [step |-> "post", ok |-> o = "ok"])
  /\ totalPostCalls' = totalPostCalls + 1
  /\ IF o = "ok"
     THEN /\ channelPosts' = channelPosts + 1
          /\ ret' = <<[statusCode |-> StatusOK, body |-> body]>>
          /\ nReturned' = nReturned + 1
          /\ pc' = "done"
          /\ UNCHANGED err
     ELSE /\ Raise(o)
          /\ UNCHANGED << channelPosts, nReturned >>

\* Lines 81-92: the empty-history branch.
PostNotice ==
  /\ pc = "post_notice"
  /\ \E d \in Dates, o \in PostOutcomes :
       /\ today' = <<d>>
       /\ ChatPostMessage(Header(channel_id, d) \o NoMessagesLine, o, NoticeBody)
  /\ UNCHANGED << env, inv, channel_id, slack_token, messages, texts, llmRequest,
                  result, summary >>

\* Lines 95-105, the call: the prompt is built and generator.run is entered.
CallLLM ==
  /\ pc = "llm"
  /\ llmRequest' = <<[prompt |-> BuildPrompt(texts), max_tokens |-> MaxTokens]>>
  /\ calls' = Append(calls, [step |-> "llm", ok |-> FALSE])
  /\ pc' = "llm_wait"
  /\ UNCHANGED << env, inv, channel_id, slack_token, messages, texts, result, summary,
                  today, posted, ret, err, totals >>

\* Lines 102-108, the return: generator.run yields a value or raises.  The
\* locals that no later line reads (messages, texts, the prompt) leave the state.
LLMReturn ==
  /\ pc = "llm_wait"
  /\ \E o \in LLMOutcomes :
       IF o.kind = "result"
       THEN /\ result' = <<o.result>>
            /\ calls' = [calls EXCEPT ![Len(calls)].ok = TRUE]
            /\ pc' = "validate"
            /\ UNCHANGED << ret, err >>
       ELSE /\ Raise(o.kind)
            /\ UNCHANGED << result, calls >>
  /\ messages' = <<>>
  /\ texts' = <<>>
  /\ llmRequest' = <<>>
  /\ UNCHANGED << env, inv, channel_id, slack_token, summary, today, posted, totals >>

\* Lines 110-116: validation of the response and extraction of the summary.
ValidateResponse ==
  /\ pc = "validate"
  /\ LET raw_replies == DictGet(result[1], "replies", PyNone)
         first == FirstReplyStripped(raw_replies)
     IN IF ~RepliesValid(raw_replies)
        THEN /\ Raise("RuntimeError: Invalid LLM responses")
             /\ UNCHANGED summary
        ELSE IF first.err # "none"
        THEN /\ Raise(first.err)
             /\ UNCHANGED summary
        ELSE /\ summary' = <<first.summary>>
             /\ pc' = "post_summary"
             /\ UNCHANGED << ret, err >>
  /\ UNCHANGED << env, inv, channel_id, slack_token, messages, texts, llmRequest,
                  result, today, calls, posted, totals >>

\* Variant: a summary is posted only if no earlier invocation of the process posted.
PostSummaryDedup ==
  /\ pc = "post_summary"
  /\ IF channelPosts > 0
     THEN /\ ret' = <<[statusCode |-> StatusOK, body |-> SummaryBody]>>
          /\ nReturned' = nReturned + 1
          /\ pc' = "done"
          /\ UNCHANGED << today, posted, calls, totalPostCalls, channelPosts, err >>
     ELSE \E d \in Dates, o \in PostOutcomes :
            /\ today' = <<d>>
            /\ ChatPostMessage(Header(channel_id, d) \o summary[1], o, SummaryBody)
  /\ UNCHANGED << env, inv, channel_id, slack_token, messages, texts, llmRequest,
                  result, summary >>

\* Lines 118-130: the summary branch's post and return.
PostSummary ==
  /\ pc = "post_summary"
  /\ \E d \in Dates, o \in PostOutcomes :
       /\ today' = <<d>>
       /\ ChatPostMessage(Header(channel_id, d) \o summary[1], o, SummaryBody)
  /\ UNCHANGED << env, inv, channel_id, slack_token, messages, texts, llmRequest,
                  result, summary >>

Next ==
  \/ Invoke
  \/ LoadEnv
  \/ GetSecret
  \/ FetchHistory
  \/ PostNotice
  \/ CallLLM
  \/ LLMReturn
  \/ ValidateResponse
  \/ PostSummary

Spec == Init /\ [][Next]_vars

\* ------------------------------------------------- vocabulary of the claims
Terminal == pc \in {"done", "failed"}

\* Remote calls of the current invocation, by step.
CallsOf(step) == {i \in 1..Len(calls) : calls[i].step = step}
LlmCalls == Cardinality(CallsOf("llm"))
AckedPosts == Cardinality({i \in CallsOf("post") : calls[i].ok})
HistoryOk == \E i \in CallsOf("history") : calls[i].ok

\* A record carries text: the field is present and not empty.
HasText(m) == "text" \in DOMAIN m /\ m["text"] # <<>>
AllTextless(ms) == \A i \in 1..Len(ms) : ~HasText(ms[i])

\* The part of the prompt in flight that follows the instruction.
SentText == SubSeq(llmRequest[1].prompt, Len(Instruction) + 1, Len(llmRequest[1].prompt))

\* The notice of the empty-history branch for the date the clock showed.
NoticeText == Header(channel_id, today[1]) \o NoMessagesLine

\* C1 as stated: with a successful history fetch and no record carrying text,
\* the invocation never reaches the model call, posts exactly the notice once
\* and returns a success result.
C1_Original ==
  /\ (pc \in {"llm", "llm_wait"}) => ~AllTextless(messages)
  /\ (Terminal /\ HistoryOk /\ LlmCalls = 0 /\ AllTextless(messages)) =>
       /\ Len(posted) = 1
       /\ posted[1] = [channel |-> channel_id, text |-> NoticeText]
       /\ pc = "done"
       /\ ret = <<[statusCode |-> StatusOK, body |-> NoticeBody]>>

\* C1 amended: with a successful history fetch and no record carrying text,
\* the invocation takes the empty-history branch, never reaches the model
\* call, and makes exactly one chat_postMessage call carrying the notice; it
\* returns the success result when that call is acknowledged, and when the
\* call raises the error leaves handler and nothing is returned.
C1_NoticeBranch ==
  /\ (pc \in {"llm", "llm_wait"}) => ~AllTextless(messages)
  /\ (HistoryOk /\ LlmCalls = 0 /\ AllTextless(messages)) =>
       pc \in {"post_notice", "done", "failed"}
  /\ (Terminal /\ HistoryOk /\ LlmCalls = 0 /\ AllTextless(messages)) =>
       /\ Len(posted) = 1
       /\ posted[1] = [channel |-> channel_id, text |-> NoticeText]
       /\ IF AckedPosts = 1
          THEN pc = "done" /\ ret = <<[statusCode |-> StatusOK, body |-> NoticeBody]>>
          ELSE pc = "failed" /\ ret = <<>> /\ err \in {"SlackApiError", "TransportError"}

\* C1 witness: a history of textless records only ended in the acknowledged notice.
C1_Witness ==
  /\ pc = "done" /\ HistoryOk /\ LlmCalls = 0
  /\ Len(messages) >= 2 /\ AllTextless(messages)
  /\ \E i \in 1..Len(messages) : "text" \in DOMAIN messages[i]
  /\ Len(posted) = 1

\* The response holds a non-empty list under 'replies'.
NonEmptyReplyList(r) ==
  /\ "replies" \in DOMAIN r
  /\ r["replies"].type = "list"
  /\ Len(r["replies"].val) >= 1

\* C2: once generator.run has returned a value without a non-empty list under
\* 'replies', the invocation can only fail, and it has made no
\* chat_postMessage call.
C2_InvalidRepliesNoPost ==
  (result # <<>> /\ ~NonEmptyReplyList(result[1])) =>
     /\ pc \in {"validate", "failed"}
     /\ Len(posted) = 0
     /\ pc = "failed" => (ret = <<>> /\ err # "none")

\* C2 witness: a response whose 'replies' is a non-empty string was rejected.
C2_Witness ==
  /\ pc = "failed" /\ result # <<>>
  /\ "replies" \in DOMAIN result[1]
  /\ result[1]["replies"].type = "str"
  /\ Len(posted) = 0

\* C3: the message text appended to the instruction is the raw blank-line join
\* when that has at most 12,000 characters, and otherwise exactly its trailing
\* 12,000 characters.
C3_TailTruncation ==
  pc = "llm_wait" =>
    LET raw == Join(Separator, texts)
    IN /\ SubSeq(llmRequest[1].prompt, 1, Len(Instruction)) = Instruction
       /\ IF Len(raw) <= PromptCap
          THEN SentText = raw
          ELSE /\ Len(SentText) = PromptCap
               /\ SentText = SubSeq(raw, Len(raw) - PromptCap + 1, Len(raw))

\* C3 witness: a join one character over the cap is in flight, cut at the front.
C3_Witness ==
  /\ pc = "llm_wait"
  /\ Len(Join(Separator, texts)) = PromptCap + 1
  /\ Len(SentText) = PromptCap
  /\ SentText[PromptCap] = "z"

\* C4 as stated: the prompt passed to generator.run has at most 12,000 characters.
C4_Original == pc = "llm_wait" => Len(llmRequest[1].prompt) <= PromptCap

\* C4 amended: the message text appended to the instruction has at most
\* 12,000 characters, so the prompt passed to generator.run has at most
\* 12,000 characters plus the length of the fixed instruction.
C4_PromptBound ==
  pc = "llm_wait" =>
    /\ Len(SentText) <= PromptCap
    /\ Len(llmRequest[1].prompt) <= Len(Instruction) + PromptCap

\* C4 witness: three long messages were fetched and the prompt in flight sits
\* exactly at the bound.
C4_Witness ==
  /\ pc = "llm_wait"
  /\ Len(Join(Separator, texts)) > 2 * PromptCap
  /\ Len(llmRequest[1].prompt) = Len(Instruction) + PromptCap

\* The digit a character stands for.
DigitVal(c) == CHOOSE k \in 0..9 : Digits[k + 1] = c
IsDigit(c) == \E k \in 0..9 : Digits[k + 1] = c

\* s is the date d written as YYYY-MM-DD: ten characters, two dashes, digits
\* that read back as the year, the month and the day.
IsIsoDate(s, d) ==
  /\ Len(s) = 10
  /\ s[5] = "-" /\ s[8] = "-"
  /\ \A i \in {1, 2, 3, 4, 6, 7, 9, 10} : IsDigit(s[i])
  /\ 1000 * DigitVal(s[1]) + 100 * DigitVal(s[2]) + 10 * DigitVal(s[3]) + DigitVal(s[4]) = d.year
  /\ 10 * DigitVal(s[6]) + DigitVal(s[7]) = d.mon
  /\ 10 * DigitVal(s[9]) + DigitVal(s[10]) = d.mday

\* t is s without its leading and trailing whitespace: s is whitespace, t,
\* whitespace, and t neither starts nor ends with whitespace.
IsTrimOf(t, s) ==
  /\ t = <<>> \/ (t[1] \notin Whitespace /\ t[Len(t)] \notin Whitespace)
  /\ \E i \in 0..Len(s) :
       /\ i + Len(t) <= Len(s)
       /\ SubSeq(s, i + 1, i + Len(t)) = t
       /\ \A k \in 1..Len(s) : (k <= i \/ k > i + Len(t)) => s[k] \in Whitespace

\* C5: the text posted on the summary branch is the header with the configured
\* channel identifier and the current date as YYYY-MM-DD, followed by exactly
\* the first completion's text without its surrounding whitespace, and the
\* post goes to the configured channel.
C5_PostedSummary ==
  (summary # <<>> /\ posted # <<>>) =>
    LET text == posted[1].text
        ch == env["SLACK_CHANNEL_ID"]
        first == result[1]["replies"].val[1].val
        a == Len(HeaderOpen)
        b == a + Len(ch)
        c == b + Len(HeaderMid)
        e == c + 10
        f == e + Len(HeaderClose)
    IN /\ Len(posted) = 1
       /\ posted[1].channel = ch
       /\ result[1]["replies"].type = "list"
       /\ Len(text) >= f
       /\ SubSeq(text, 1, a) = HeaderOpen
       /\ SubSeq(text, a + 1, b) = ch
       /\ SubSeq(text, b + 1, c) = HeaderMid
       /\ IsIsoDate(SubSeq(text, c + 1, e), today[1])
       /\ SubSeq(text, e + 1, f) = HeaderClose
       /\ IsTrimOf(SubSeq(text, f + 1, Len(text)), first)

\* C5 witness: two different completions came back, the first padded with
\* whitespace on both sides, and the summary was posted on a one-digit day.
C5_Witness ==
  /\ pc = "done" /\ summary # <<>> /\ Len(posted) = 1
  /\ Len(result[1]["replies"].val) >= 2
  /\ result[1]["replies"].val[1] # result[1]["replies"].val[2]
  /\ LET first == result[1]["replies"].val[1].val
     IN first[1] \in Whitespace /\ first[Len(first)] \in Whitespace /\ summary[1] # <<>>
  /\ today[1].mday < 10

\* The response is a non-empty list whose first element is text.
WellFormedResponse(r) ==
  /\ NonEmptyReplyList(r)
  /\ r["replies"].val[1].type = "str"

\* C6 as stated: a response of any other shape than a non-empty list of
\* completion texts makes handler raise RuntimeError('Invalid LLM responses')
\* and no other error, with nothing posted.
C6_Claim ==
  (result # <<>> /\ ~WellFormedResponse(result[1]) /\ pc # "validate") =>
     /\ pc = "failed"
     /\ err = "RuntimeError: Invalid LLM responses"
     /\ Len(posted) = 0

\* The orders in which one invocation may issue its remote calls.
AllowedCallOrders ==
  { <<>>, <<"secret">>, <<"secret", "history">>,
    <<"secret", "history", "post">>,
    <<"secret", "history", "llm">>,
    <<"secret", "history", "llm", "post">> }

\* C7: the remote calls of one invocation come in the order secret lookup,
\* history fetch, model call (summary branch only), post; a call is issued
\* only after every earlier one succeeded; after a failure no further call is
\* issued, an error and no result leaves handler, and no post of the
\* invocation was acknowledged.
C7_OrderAndAbort ==
  /\ [i \in 1..Len(calls) |-> calls[i].step] \in AllowedCallOrders
  /\ \A i \in 1..Len(calls) : i < Len(calls) => calls[i].ok
  /\ pc = "llm_wait" => ~AllTextless(messages)
  /\ pc = "failed" =>
       /\ ret = <<>>
       /\ err # "none"
       /\ AckedPosts = 0
  /\ (\E i \in 1..Len(calls) : ~calls[i].ok) => pc \in {"failed", "llm_wait"}
  /\ pc = "done" => (err = "none" /\ ret # <<>>)

\* C7 witness: the post of the summary branch failed after three good steps.
C7_Witness ==
  /\ pc = "failed"
  /\ Len(calls) = 4
  /\ ~calls[4].ok
  /\ err = "SlackApiError"

\* C8: an invocation makes at most one chat_postMessage call and at most one
\* generator.run call; it returns statusCode 200 exactly when one post call
\* was made and acknowledged; the body is the notice body exactly when the
\* model was not called and the JSON summary body exactly when the model was
\* called and its response validated.
C8_ExclusiveBranches ==
  /\ Len(posted) <= 1
  /\ LlmCalls <= 1
  /\ Cardinality(CallsOf("post")) = Len(posted)
  /\ (ret # <<>>) <=> (Len(posted) = 1 /\ AckedPosts = 1)
  /\ ret # <<>> =>
       /\ ret[1].statusCode = 200
       /\ ret[1].body \in {NoticeBody, SummaryBody}
       /\ ret[1].body = NoticeBody <=> LlmCalls = 0
       /\ ret[1].body = SummaryBody <=>
            (LlmCalls = 1 /\ result # <<>> /\ WellFormedResponse(result[1]) /\ summary # <<>>)

\* C8 witness: an invocation returned the summary body.
C8_Witness ==
  /\ pc = "done" /\ ret # <<>> /\ ret[1].body = SummaryBody
  /\ LlmCalls = 1 /\ Len(posted) = 1

\* C9: nothing is carried between invocations: every invocation that returns
\* has put its own message into the channel, so n successful invocations in a
\* row make exactly n chat_postMessage calls and n channel messages.
C9_NoDeduplication ==
  /\ channelPosts = nReturned
  /\ (Terminal /\ nReturned = inv) => totalPostCalls = inv

\* C9 witness: two invocations in a row returned and two posts were made.
C9_Witness ==
  /\ pc = "done" /\ inv >= 2 /\ nReturned = inv
  /\ totalPostCalls = inv /\ channelPosts = inv
  /\ summary # <<>>

\* Indices of the records that carry text, and the k-th of them in order.
TextIdx == {i \in 1..Len(messages) : HasText(messages[i])}
KthTextIdx(k) == CHOOSE i \in TextIdx : Cardinality({j \in TextIdx : j <= i}) = k

\* Length of the raw join up to and including the separator after text k.
RECURSIVE JoinOffset(_)
JoinOffset(k) ==
  IF k = 0 THEN 0
  ELSE JoinOffset(k - 1) + Len(messages[KthTextIdx(k)]["text"]) + Len(Separator)

\* C10: the text sent to the model is made of exactly the records with a
\* present, non-empty text, in the order returned, with a blank line between
\* neighbours: every such text and every separator sits at its place in the
\* raw join, of which the sent text is the part that survives the cap.
C10_ExtractAndJoin ==
  pc = "llm_wait" =>
    LET n == Cardinality(TextIdx)
        total == JoinOffset(n) - Len(Separator)
        drop == total - Len(SentText)
    IN /\ n >= 1
       /\ Len(texts) = n
       /\ \A k \in 1..n : texts[k] = messages[KthTextIdx(k)]["text"]
       /\ drop = IF total > PromptCap THEN total - PromptCap ELSE 0
       /\ \A k \in 1..n :
            LET t == messages[KthTextIdx(k)]["text"]
                start == JoinOffset(k - 1)
                lo == IF start + 1 > drop + 1 THEN start + 1 ELSE drop + 1
                hi == start + Len(t)
            IN /\ lo <= hi =>
                    SubSeq(SentText, lo - drop, hi - drop) = SubSeq(t, lo - start, hi - start)
               /\ \A q \in {hi + 1, hi + 2} :
                    (k < n /\ q > drop) => SentText[q - drop] = "\n"

\* C10 witness: three records, one of them without text between two different
\* texts, went into the prompt in the order returned.
C10_Witness ==
  /\ pc = "llm_wait"
  /\ Len(messages) = 3
  /\ HasText(messages[1]) /\ ~HasText(messages[2]) /\ HasText(messages[3])
  /\ messages[1]["text"] # messages[3]["text"]
  /\ Len(texts) = 2
====
